---- MODULE Spec2Model ----
(***************************************************************************)
(* Session volume API (shungjs/voices).                                    *)
(*                                                                         *)
(* Two variants of the same Express server are modelled:                   *)
(*   "message"  src/unnamed/part_000  (volume driven by volumePerMessage,  *)
(*                                     with a minVolume floor)             *)
(*   "tts"      src/server.js         (settings hold volumePerTTS, no      *)
(*                                     minVolume)                          *)
(* The variable `variant` is fixed by Init and selects which file's        *)
(* handlers run.                                                           *)
(*                                                                         *)
(* Numbers: volumes are kept in hundredths (0.10 is 10, 0.90 is 90, 1 is   *)
(* 100), so every settings value and request value of the model is a       *)
(* finite decimal with two places.  NaN and Infinity, which the handlers   *)
(* can produce in messagesUntilMax, are kept as tagged values.             *)
(*                                                                         *)
(* Strings that are lowercased are sequences of one-character strings, so  *)
(* that toLowerCase is computed character by character.                    *)
(*                                                                         *)
(* Each handler is synchronous JavaScript (no await, no callback), so one  *)
(* handler is one atomic action.  lastTTSTime (a wall-clock stamp that no  *)
(* handler reads) and process.uptime() are left out of the state.          *)
(***************************************************************************)
EXTENDS Integers, Sequences, FiniteSets, TLC

VARIABLES
    variant,    \* which source file runs: "message" or "tts"
    settings,   \* streamData.settings: field name -> value in hundredths
    users,      \* streamData.users: the Map, as its entries in insertion order
    req,        \* the request handled last
    res,        \* the response sent for it
    posts,      \* history: key -> message requests handled since the last clear
    ttsUses,    \* history: key -> TTS-counting requests handled since the last clear
    cleared,    \* history: records removed by the request handled last
    inflight,   \* requests that have arrived and wait for the event loop
    arrived     \* history: <<key, op>> -> requests put in flight

vars == <<variant, settings, users, req, res, posts, ttsUses, cleared, inflight, arrived>>

----------------------------------------------------------------------------
(* Bounds of the model *)

MaxCount == 2       \* a counter is not incremented beyond this
MaxVolCount == 4    \* counters the pure volume function is tried on: 0..MaxVolCount
MaxInflight == 3    \* requests waiting for the event loop at once
NumLB == 11         \* users in the leaderboard specification

(* Program constant: .slice(0, 10) *)
TopN == 10

----------------------------------------------------------------------------
(* Numbers *)

Min2(a, b) == IF a <= b THEN a ELSE b
Max2(a, b) == IF a >= b THEN a ELSE b

One == 100  \* 1.0 in hundredths

Num(n) == [kind |-> "num", n |-> n]
NaN == [kind |-> "NaN", n |-> 0]
Infinity == [kind |-> "Infinity", n |-> 0]

\* Math.ceil(a / b) for b > 0
CeilDiv(a, b) == IF a >= 0 THEN (a + b - 1) \div b ELSE -((-a) \div b)

----------------------------------------------------------------------------
(* Strings *)

LowerChar(c) == CASE c = "A" -> "a"
                  [] c = "B" -> "b"
                  [] c = "C" -> "c"
                  [] OTHER -> c

toLowerCase(s) == [i \in 1..Len(s) |-> LowerChar(s[i])]

----------------------------------------------------------------------------
(* Settings *)

\* const VOLUME_CONFIG = {...}; streamData.settings is this object
VOLUME_CONFIG(v) ==
    IF v = "message"
    THEN [startVolume |-> 10, volumePerMessage |-> 2, maxVolume |-> 90, minVolume |-> 10]
    ELSE [startVolume |-> 10, volumePerTTS |-> 2, maxVolume |-> 90]

\* the names the PUT handler destructures from req.body
KnownFields(v) ==
    IF v = "message"
    THEN {"startVolume", "volumePerMessage", "maxVolume", "minVolume"}
    ELSE {"startVolume", "volumePerTTS", "maxVolume"}

\* mutant: the increment is stored as given, without Math.max(0, ...)
ClampFieldNoFloor(f, x) ==
    IF f \in {"volumePerMessage", "volumePerTTS"}
    THEN x
    ELSE Max2(0, Min2(One, x))

\* mutant: the volume fields lose their Math.min(1, ...)
ClampFieldNoCeiling(f, x) == Max2(0, x)

\* Math.max(0, Math.min(1, x)) for the volume fields, Math.max(0, x) for the increment
ClampField(f, x) ==
    IF f \in {"volumePerMessage", "volumePerTTS"}
    THEN Max2(0, x)
    ELSE Max2(0, Min2(One, x))

\* mutant: the stored settings are rebuilt from the defaults and the body
UpdateSettingsFromDefaults(v, s, body) ==
    [f \in DOMAIN s |->
        IF f \in KnownFields(v) /\ f \in DOMAIN body
        THEN ClampField(f, body[f])
        ELSE VOLUME_CONFIG(v)[f]]

\* the four (three) guarded assignments of PUT /api/settings
UpdateSettings(v, s, body) ==
    [f \in DOMAIN s |->
        IF f \in KnownFields(v) /\ f \in DOMAIN body
        THEN ClampField(f, body[f])
        ELSE s[f]]

\* mutant: the first event is already charged at count 0
calculateVolumeOffByOne(v, s, count) ==
    IF v = "message"
    THEN Min2(Max2(s.startVolume + ((count + 1) * s.volumePerMessage), s.minVolume), s.maxVolume)
    ELSE Min2(s.startVolume + ((count + 1) * s.volumePerTTS), s.maxVolume)

\* function calculateVolume(count), reading the settings s
calculateVolumeWith(v, s, count) ==
    IF v = "message"
    THEN Min2(Max2(s.startVolume + (count * s.volumePerMessage), s.minVolume), s.maxVolume)
    ELSE Min2(s.startVolume + (count * s.volumePerTTS), s.maxVolume)

calculateVolume(count) == calculateVolumeWith(variant, settings, count)

\* Math.max(0, Math.ceil((maxVolume - volume) / volumePerMessage));
\* server.js has no volumePerMessage in its settings, so the divisor is undefined
messagesUntilMaxOf(s, volume) ==
    IF "volumePerMessage" \notin DOMAIN s THEN NaN
    ELSE IF s.volumePerMessage = 0
         THEN (IF s.maxVolume - volume > 0 THEN Infinity
               ELSE IF s.maxVolume - volume = 0 THEN NaN
               ELSE Num(0))
         ELSE Num(Max2(0, CeilDiv(s.maxVolume - volume, s.volumePerMessage)))

----------------------------------------------------------------------------
(* The users Map: a sequence of entries [key, val] in insertion order *)

DefaultUser == [messageCount |-> 0, ttsCount |-> 0]

Keys(m) == {m[i].key : i \in 1..Len(m)}

IndexOf(m, k) == IF k \in Keys(m) THEN CHOOSE i \in 1..Len(m) : m[i].key = k ELSE 0

\* mutant: the lookup misses, so every handler starts from the zero record
GetUserAlwaysFresh(m, k) == DefaultUser

\* streamData.users.get(username) || { messageCount: 0, ttsCount: 0 }
GetUser(m, k) == IF k \in Keys(m) THEN m[IndexOf(m, k)].val ELSE DefaultUser

\* mutant: the record is shared, so a write reaches every entry of the Map
MapSetShared(m, k, val) ==
    IF k \in Keys(m)
    THEN [i \in 1..Len(m) |-> [key |-> m[i].key, val |-> val]]
    ELSE Append([i \in 1..Len(m) |-> [key |-> m[i].key, val |-> val]], [key |-> k, val |-> val])

\* streamData.users.set(username, user): an existing key keeps its place
MapSet(m, k, val) ==
    IF k \in Keys(m)
    THEN [m EXCEPT ![IndexOf(m, k)] = [key |-> k, val |-> val]]
    ELSE Append(m, [key |-> k, val |-> val])

\* mutant: the reducer returns the entry's value instead of adding it to the sum
SumOverLast(m, field) == IF m = <<>> THEN 0 ELSE m[Len(m)].val[field]

RECURSIVE SumOver(_, _)
\* users.reduce((sum, user) => sum + user[field], 0)
SumOver(m, field) ==
    IF m = <<>> THEN 0
    ELSE SumOver(SubSeq(m, 1, Len(m) - 1), field) + m[Len(m)].val[field]

\* history counters default to 0
Hist(h, k) == IF k \in DOMAIN h THEN h[k] ELSE 0
Bump(h, k) == [x \in DOMAIN h \cup {k} |-> IF x = k THEN Hist(h, k) + 1 ELSE h[x]]
NoHist == [x \in {} |-> 0]

----------------------------------------------------------------------------
(* Requests and responses *)

NoName == <<>>
NoBody == <<>>

Request(op, username, body) == [op |-> op, username |-> username, body |-> body]

\* Math.round(volume * 100) and volume.toFixed(2): a volume kept in hundredths
\* is already the rounded percentage and the two-place decimal
volumePercentOf(volume) == (volume * 100) \div One

\* the body of the two identical responses of GET volume and POST message
VolumeReply(op, username, user) ==
    LET volume == calculateVolume(user.messageCount)
    IN  [op |-> op, status |-> 200,
         username |-> username,
         volume |-> volume,
         messageCount |-> user.messageCount,
         messagesUntilMax |-> messagesUntilMaxOf(settings, volume),
         atMaxVolume |-> (volume >= settings.maxVolume)]

\* Express answers 404 for a path no route of the file matches
NotFound(op) == [op |-> op, status |-> 404]

\* what every handler leaves alone
Frame == UNCHANGED <<variant, arrived>>

----------------------------------------------------------------------------
(* Handlers: one action per route *)

\* GET /health
Health ==
    /\ req' = Request("health", NoName, NoBody)
    /\ res' = [op |-> "health", status |-> 200, totalUsers |-> Len(users)]
    /\ cleared' = 0
    /\ UNCHANGED <<settings, users, posts, ttsUses>>
    /\ Frame

\* mutant: the lookup is a getOrCreate that stores the record it returns
GetVolumeCreates(raw) ==
    LET username == toLowerCase(raw)
        user == GetUser(users, username)
    IN  /\ req' = Request("volume", raw, NoBody)
        /\ users' = MapSet(users, username, user)
        /\ res' = VolumeReply("volume", username, user)
        /\ cleared' = 0
        /\ UNCHANGED <<settings, posts, ttsUses>>
        /\ Frame

\* GET /api/user/:username/volume
GetVolume(raw) ==
    LET username == toLowerCase(raw)
        user == GetUser(users, username)
    IN  /\ req' = Request("volume", raw, NoBody)
        /\ res' = VolumeReply("volume", username, user)
        /\ cleared' = 0
        /\ UNCHANGED <<settings, users, posts, ttsUses>>
        /\ Frame

\* mutant: the reply is computed from the record as it was before the increment
PostMessagePreIncrement(raw) ==
    LET username == toLowerCase(raw)
        old == GetUser(users, username)
        user == [old EXCEPT !.messageCount = @ + 1]
    IN  /\ old.messageCount < MaxCount
        /\ req' = Request("message", raw, NoBody)
        /\ users' = MapSet(users, username, user)
        /\ res' = VolumeReply("message", username, old)
        /\ posts' = Bump(posts, username)
        /\ cleared' = 0
        /\ UNCHANGED <<settings, ttsUses>>
        /\ Frame

\* POST /api/user/:username/message
PostMessage(raw) ==
    LET username == toLowerCase(raw)
        old == GetUser(users, username)
        user == [old EXCEPT !.messageCount = @ + 1]
    IN  /\ old.messageCount < MaxCount
        /\ req' = Request("message", raw, NoBody)
        /\ users' = MapSet(users, username, user)
        /\ res' = VolumeReply("message", username, user)
        /\ posts' = Bump(posts, username)
        /\ cleared' = 0
        /\ UNCHANGED <<settings, ttsUses>>
        /\ Frame

\* POST /api/user/:username/tts (server.js only)
PostTts(raw, body) ==
    LET username == toLowerCase(raw)
        message == IF "message" \in DOMAIN body THEN body.message ELSE ""
        old == GetUser(users, username)
        user == [f \in DOMAIN old \cup {"lastTTSMessage"} |->
                    IF f = "ttsCount" THEN old.ttsCount + 1
                    ELSE IF f = "lastTTSMessage" THEN message
                    ELSE old[f]]
    IN  /\ req' = Request("postTts", raw, body)
        /\ cleared' = 0
        /\ IF variant = "tts"
           THEN /\ old.ttsCount < MaxCount
                /\ users' = MapSet(users, username, user)
                /\ res' = [op |-> "postTts", status |-> 200,
                           username |-> username,
                           volume |-> calculateVolume(user.messageCount),
                           volumePercent |-> volumePercentOf(calculateVolume(user.messageCount)),
                           ttsCount |-> user.ttsCount,
                           messageCount |-> user.messageCount,
                           message |-> message,
                           success |-> TRUE]
                /\ ttsUses' = Bump(ttsUses, username)
           ELSE /\ res' = NotFound("postTts")
                /\ UNCHANGED <<users, ttsUses>>
        /\ UNCHANGED <<settings, posts>>
        /\ Frame

\* mutant: the handler stores a new record that carries only the TTS counter
GetTtsFreshRecord(raw) ==
    LET username == toLowerCase(raw)
        old == GetUser(users, username)
        volume == calculateVolume(old.messageCount)
        user == [DefaultUser EXCEPT !.ttsCount = old.ttsCount + 1]
    IN  /\ old.ttsCount < MaxCount
        /\ req' = Request("getTts", raw, NoBody)
        /\ users' = MapSet(users, username, user)
        /\ res' = [op |-> "getTts", status |-> 200,
                   username |-> username,
                   volume |-> volume,
                   volumePercent |-> volumePercentOf(volume),
                   messageCount |-> user.messageCount,
                   ttsCount |-> user.ttsCount]
        /\ ttsUses' = Bump(ttsUses, username)
        /\ cleared' = 0
        /\ UNCHANGED <<settings, posts>>
        /\ Frame

\* GET /api/tts/:username (text in part_000, JSON in server.js)
GetTts(raw) ==
    LET username == toLowerCase(raw)
        old == GetUser(users, username)
        volume == calculateVolume(old.messageCount)
        user == [old EXCEPT !.ttsCount = @ + 1]
    IN  /\ old.ttsCount < MaxCount
        /\ req' = Request("getTts", raw, NoBody)
        /\ users' = MapSet(users, username, user)
        /\ res' = [op |-> "getTts", status |-> 200,
                   username |-> username,
                   volume |-> volume,
                   volumePercent |-> volumePercentOf(volume),
                   messageCount |-> user.messageCount,
                   ttsCount |-> user.ttsCount]
        /\ ttsUses' = Bump(ttsUses, username)
        /\ cleared' = 0
        /\ UNCHANGED <<settings, posts>>
        /\ Frame

\* mutant: the JSON query only reads, as the lookup of /api/user/:username/volume
GetTtsJsonPeek(raw) ==
    LET username == toLowerCase(raw)
        old == GetUser(users, username)
        volume == calculateVolume(old.messageCount)
    IN  /\ req' = Request("getTtsJson", raw, NoBody)
        /\ cleared' = 0
        /\ res' = IF variant = "message"
                  THEN [op |-> "getTtsJson", status |-> 200,
                        username |-> username,
                        volume |-> volume,
                        volumePercent |-> volumePercentOf(volume),
                        messageCount |-> old.messageCount,
                        ttsCount |-> old.ttsCount,
                        success |-> TRUE]
                  ELSE NotFound("getTtsJson")
        /\ UNCHANGED <<settings, users, posts, ttsUses>>
        /\ Frame

\* GET /api/tts/:username/json (part_000 only)
GetTtsJson(raw) ==
    LET username == toLowerCase(raw)
        old == GetUser(users, username)
        volume == calculateVolume(old.messageCount)
        user == [old EXCEPT !.ttsCount = @ + 1]
    IN  /\ req' = Request("getTtsJson", raw, NoBody)
        /\ cleared' = 0
        /\ IF variant = "message"
           THEN /\ old.ttsCount < MaxCount
                /\ users' = MapSet(users, username, user)
                /\ res' = [op |-> "getTtsJson", status |-> 200,
                           username |-> username,
                           volume |-> volume,
                           volumePercent |-> volumePercentOf(volume),
                           messageCount |-> user.messageCount,
                           ttsCount |-> user.ttsCount,
                           success |-> TRUE]
                /\ ttsUses' = Bump(ttsUses, username)
           ELSE /\ res' = NotFound("getTtsJson")
                /\ UNCHANGED <<users, ttsUses>>
        /\ UNCHANGED <<settings, posts>>
        /\ Frame

\* mutant: an unstable sort that puts the later of two equal entries first
InsertDescUnstable(sorted, e) ==
    LET p == Cardinality({i \in 1..Len(sorted) : sorted[i].messageCount > e.messageCount})
    IN  SubSeq(sorted, 1, p) \o <<e>> \o SubSeq(sorted, p + 1, Len(sorted))

\* .sort((a, b) => b.messageCount - a.messageCount): Array.prototype.sort is
\* stable, so it is computed as a stable insertion sort
InsertDesc(sorted, e) ==
    LET p == Cardinality({i \in 1..Len(sorted) : sorted[i].messageCount >= e.messageCount})
    IN  SubSeq(sorted, 1, p) \o <<e>> \o SubSeq(sorted, p + 1, Len(sorted))

RECURSIVE SortDesc(_)
SortDesc(list) ==
    IF list = <<>> THEN <<>>
    ELSE InsertDesc(SortDesc(SubSeq(list, 1, Len(list) - 1)), list[Len(list)])

\* .slice(0, 10)
Slice(list, n) == SubSeq(list, 1, Min2(n, Len(list)))

\* Array.from(users.entries()).map(...).sort(...).slice(0, 10)
TopUsers(m) ==
    LET mapped == [i \in 1..Len(m) |->
                      [username |-> m[i].key,
                       messageCount |-> m[i].val.messageCount,
                       volume |-> calculateVolume(m[i].val.messageCount),
                       ttsCount |-> m[i].val.ttsCount]]
    IN  Slice(SortDesc(mapped), TopN)

\* part_000 formats each entry as "<i+1>. <username> (<n> msgs, <p>% vol)"
LeaderboardLine(list, i) ==
    [rank |-> i,
     username |-> list[i].username,
     messageCount |-> list[i].messageCount,
     volumePercent |-> volumePercentOf(list[i].volume)]

\* GET /api/leaderboard
Leaderboard ==
    LET top == TopUsers(users)
    IN  /\ req' = Request("leaderboard", NoName, NoBody)
        /\ res' = IF variant = "tts"
                  THEN [op |-> "leaderboard", status |-> 200, users |-> top]
                  ELSE [op |-> "leaderboard", status |-> 200,
                        users |-> [i \in 1..Len(top) |-> LeaderboardLine(top, i)],
                        noData |-> (top = <<>>)]
        /\ cleared' = 0
        /\ UNCHANGED <<settings, users, posts, ttsUses>>
        /\ Frame

\* GET /api/settings
GetSettings ==
    /\ req' = Request("getSettings", NoName, NoBody)
    /\ res' = [op |-> "getSettings", status |-> 200, settings |-> settings]
    /\ cleared' = 0
    /\ UNCHANGED <<settings, users, posts, ttsUses>>
    /\ Frame

\* PUT /api/settings
PutSettings(body) ==
    /\ req' = Request("putSettings", NoName, body)
    /\ settings' = UpdateSettings(variant, settings, body)
    /\ res' = [op |-> "putSettings", status |-> 200, settings |-> settings']
    /\ cleared' = 0
    /\ UNCHANGED <<users, posts, ttsUses>>
    /\ Frame

\* mutant: a new stream also starts from the default settings
ResetRestoresDefaults ==
    /\ req' = Request("reset", NoName, NoBody)
    /\ users' = <<>>
    /\ settings' = VOLUME_CONFIG(variant)
    /\ res' = IF variant = "tts"
              THEN [op |-> "reset", status |-> 200, totalUsers |-> 0]
              ELSE [op |-> "reset", status |-> 200]
    /\ posts' = NoHist
    /\ ttsUses' = NoHist
    /\ cleared' = Len(users)
    /\ Frame

\* mutant: the handler clears a copy and leaves the Map as it is
ResetKeepsUsers ==
    /\ req' = Request("reset", NoName, NoBody)
    /\ res' = IF variant = "tts"
              THEN [op |-> "reset", status |-> 200, totalUsers |-> 0]
              ELSE [op |-> "reset", status |-> 200]
    /\ posts' = NoHist
    /\ ttsUses' = NoHist
    /\ cleared' = 0
    /\ UNCHANGED <<settings, users>>
    /\ Frame

\* POST /api/reset
Reset ==
    /\ req' = Request("reset", NoName, NoBody)
    /\ users' = <<>>
    /\ res' = IF variant = "tts"
              THEN [op |-> "reset", status |-> 200, totalUsers |-> 0]
              ELSE [op |-> "reset", status |-> 200]
    /\ posts' = NoHist
    /\ ttsUses' = NoHist
    /\ cleared' = Len(users)
    /\ UNCHANGED settings
    /\ Frame

\* the three aggregates of GET /api/stats
StatsOf(m) ==
    [totalUsers |-> Len(m),
     totalMessages |-> SumOver(m, "messageCount"),
     totalTTS |-> SumOver(m, "ttsCount")]

\* GET /api/stats
Stats ==
    /\ req' = Request("stats", NoName, NoBody)
    /\ res' = [op |-> "stats", status |-> 200,
               totalUsers |-> StatsOf(users).totalUsers,
               totalMessages |-> StatsOf(users).totalMessages,
               totalTTS |-> StatsOf(users).totalTTS]
    /\ cleared' = 0
    /\ UNCHANGED <<settings, users, posts, ttsUses>>
    /\ Frame

----------------------------------------------------------------------------
(* Spec: every route, called with a few identifiers and bodies *)

RawNames == {<<"a">>, <<"A">>, <<"a", " ">>}

TtsBodies == {NoBody, [message |-> "hi"]}

MainBodies ==
    { [maxVolume |-> 500, colour |-> 7],
      [startVolume |-> 50, volumePerMessage |-> 40, volumePerTTS |-> 40] }

\* the state once the module is loaded and app.listen has been called
InitWith(v) ==
    /\ variant = v
    /\ settings = VOLUME_CONFIG(v)
    /\ users = <<>>
    /\ req = Request("listen", NoName, NoBody)
    /\ res = [op |-> "listen", status |-> 0]
    /\ posts = NoHist
    /\ ttsUses = NoHist
    /\ cleared = 0
    /\ inflight = <<>>
    /\ arrived = NoHist

Init == \E v \in {"message", "tts"} : InitWith(v)

DoHealth == Health /\ UNCHANGED inflight
DoGetVolume == \E raw \in RawNames : GetVolume(raw) /\ UNCHANGED inflight
DoPostMessage == \E raw \in RawNames : PostMessage(raw) /\ UNCHANGED inflight
DoPostTts == \E raw \in RawNames, body \in TtsBodies : PostTts(raw, body) /\ UNCHANGED inflight
DoGetTts == \E raw \in RawNames : GetTts(raw) /\ UNCHANGED inflight
DoGetTtsJson == \E raw \in RawNames : GetTtsJson(raw) /\ UNCHANGED inflight
DoLeaderboard == Leaderboard /\ UNCHANGED inflight
DoGetSettings == GetSettings /\ UNCHANGED inflight
DoPutSettings == \E body \in MainBodies : PutSettings(body) /\ UNCHANGED inflight
DoReset == Reset /\ UNCHANGED inflight
DoStats == Stats /\ UNCHANGED inflight

Next ==
    \/ DoHealth
    \/ DoGetVolume
    \/ DoPostMessage
    \/ DoPostTts
    \/ DoGetTts
    \/ DoGetTtsJson
    \/ DoLeaderboard
    \/ DoGetSettings
    \/ DoPutSettings
    \/ DoReset
    \/ DoStats

Spec == Init /\ [][Next]_vars

----------------------------------------------------------------------------
(* SpecSettings: PUT /api/settings with out-of-range values, partial bodies *)
(* and names the handler does not know                                     *)

BodyNames == {"startVolume", "volumePerMessage", "volumePerTTS", "maxVolume", "minVolume", "colour"}

\* -1, 0.5 and 5
BodyValues == {-100, 50, 500}

\* JSON objects with at most two members
SettingsBodies ==
    UNION { [D -> BodyValues] : D \in {E \in SUBSET BodyNames : Cardinality(E) <= 2} }

\* a body that asks for the stepped formula: eventsPerIncrement 2
SteppedBodies == {[eventsPerIncrement |-> 2 * One]}

DoPutAnySettings ==
    \E body \in SettingsBodies \cup SteppedBodies : PutSettings(body) /\ UNCHANGED inflight

NextSettings ==
    \/ DoPutAnySettings
    \/ DoGetSettings
    \/ DoGetVolume

SpecSettings == Init /\ [][NextSettings]_vars

----------------------------------------------------------------------------
(* SpecConc: counter-incrementing requests on one user key arrive while      *)
(* others still wait; the event loop runs one waiting handler at a time, to  *)
(* completion, in any order                                                  *)

\* the routes each file registers
RouteExists(v, op) ==
    CASE op = "postTts" -> v = "tts"
      [] op = "getTtsJson" -> v = "message"
      [] OTHER -> TRUE

\* the counter a request's handler increments
CounterOf(op) == IF op = "message" THEN "messageCount" ELSE "ttsCount"

ConcNames == {<<"a">>, <<"A">>}

ConcRequests ==
    {Request(op, raw, IF op = "postTts" THEN [message |-> "hi"] ELSE NoBody) :
        op \in {"message", "getTts", "postTts", "getTtsJson"}, raw \in ConcNames}

\* Express calls the handler registered for the request's method and path
Handle(r) ==
    \/ r.op = "message" /\ PostMessage(r.username)
    \/ r.op = "getTts" /\ GetTts(r.username)
    \/ r.op = "postTts" /\ PostTts(r.username, r.body)
    \/ r.op = "getTtsJson" /\ GetTtsJson(r.username)

\* a request reaches the server while earlier ones have not been handled yet
Arrive ==
    \E r \in ConcRequests :
        LET slot == <<toLowerCase(r.username), CounterOf(r.op)>>
        IN  /\ RouteExists(variant, r.op)
            /\ Len(inflight) < MaxInflight
            /\ Hist(arrived, slot) < MaxCount
            /\ inflight' = Append(inflight, r)
            /\ arrived' = Bump(arrived, slot)
            /\ UNCHANGED <<variant, settings, users, req, res, posts, ttsUses, cleared>>

\* the event loop takes one waiting request and runs its handler to the end
Dispatch ==
    \E i \in 1..Len(inflight) :
        /\ Handle(inflight[i])
        /\ inflight' = SubSeq(inflight, 1, i - 1) \o SubSeq(inflight, i + 1, Len(inflight))

NextConc ==
    \/ Arrive
    \/ Dispatch

SpecConc == Init /\ [][NextConc]_vars

----------------------------------------------------------------------------
(* SpecLB: more users than the leaderboard shows.  Users post their first    *)
(* message in the order of LBNames; some of them post again later.           *)

LBNames ==
    << <<"b">>, <<"c", "a">>, <<"a">>, <<"b", "b">>, <<"c">>, <<"a", "c">>,
       <<"a", "a">>, <<"c", "b">>, <<"b", "a">>, <<"a", "b">>, <<"c", "c">>, <<"b", "c">> >>

\* positions in LBNames of the users that post again
LBPosters == {1, 2, 3, 5, 8, 10, 11, 12}

LBJoin ==
    /\ Len(users) < NumLB
    /\ PostMessage(LBNames[Len(users) + 1])
    /\ UNCHANGED inflight

LBPost ==
    \E i \in LBPosters :
        /\ i <= Len(users)
        /\ PostMessage(LBNames[i])
        /\ UNCHANGED inflight

NextLB ==
    \/ LBJoin
    \/ LBPost
    \/ DoLeaderboard

SpecLB == Init /\ [][NextLB]_vars

----------------------------------------------------------------------------
(* Claims *)

IncrementFields == {"volumePerMessage", "volumePerTTS"}

\* C2: in part_000, for every reachable settings state and every counter c,
\* minVolume <= calculateVolume(c) <= maxVolume
C2_VolumeWithinMinAndMax ==
    variant = "message" =>
        \A c \in 0..MaxVolCount :
            /\ settings.minVolume <= calculateVolume(c)
            /\ calculateVolume(c) <= settings.maxVolume

Clamped(f, x) ==
    IF x < 0 THEN 0
    ELSE IF f \notin IncrementFields /\ x > One THEN One
    ELSE x

\* C6: PUT /api/settings stores every provided known field clamped and answers
\* without an error; the volume fields stay in [0,1] and the increment >= 0
C6_SettingsClamped ==
    /\ \A f \in DOMAIN settings :
          IF f \in IncrementFields
          THEN settings[f] >= 0
          ELSE settings[f] >= 0 /\ settings[f] <= One
    /\ req.op = "putSettings" =>
          /\ res.status = 200
          /\ \A f \in DOMAIN settings \cap DOMAIN req.body :
                settings[f] = Clamped(f, req.body[f])

\* maxVolume: 5 was stored as 1 and a per-event increment of -1 as 0
C6_Witness ==
    /\ req.op = "putSettings"
    /\ DOMAIN req.body = {"maxVolume", "volumePerMessage"}
    /\ req.body.maxVolume = 500
    /\ req.body.volumePerMessage = -100
    /\ variant = "message"
    /\ settings.maxVolume = One
    /\ settings.volumePerMessage = 0

\* C7: PUT /api/settings changes only the known fields present in the body:
\* omitted fields keep their value, unknown names add nothing, and the response
\* carries the full resulting settings
C7_PartialUpdateFrame ==
    [][req'.op = "putSettings" =>
          /\ DOMAIN settings' = DOMAIN settings
          /\ \A f \in DOMAIN settings :
                f \notin DOMAIN req'.body => settings'[f] = settings[f]
          /\ res'.settings = settings']_vars

\* an update naming maxVolume and an unknown field left an earlier, non-default
\* startVolume in place
C7_Witness ==
    /\ req.op = "putSettings"
    /\ DOMAIN req.body = {"maxVolume", "colour"}
    /\ settings.startVolume = 50
    /\ settings.maxVolume = One
    /\ res.settings = settings

\* every key a request of the model can name, and every key in the Map
KnownKeys == {toLowerCase(raw) : raw \in RawNames} \cup Keys(users)

\* C1: after k POST message requests on a user since the Map was last empty of
\* it, the user's messageCount is k, and the k-th response carries messageCount k
\* and the volume calculateVolume(k) under the current settings
C1_MessageCountIsK ==
    /\ \A k \in KnownKeys : GetUser(users, k).messageCount = Hist(posts, k)
    /\ req.op = "message" =>
          /\ res.username = toLowerCase(req.username)
          /\ res.messageCount = Hist(posts, res.username)
          /\ res.volume = calculateVolume(Hist(posts, res.username))

\* the second message of one user, answered while another user has a record and
\* the settings have been updated
C1_Witness ==
    /\ req.op = "message"
    /\ res.messageCount = 2
    /\ Len(users) = 2
    /\ settings # VOLUME_CONFIG(variant)
    /\ res.volume > calculateVolume(0)

\* C4: the counters are never negative; across every step other than POST
\* /api/reset no record is removed and no counter decreases
C4_CountersNeverDecrease ==
    [][/\ \A i \in 1..Len(users') :
             users'[i].val.messageCount >= 0 /\ users'[i].val.ttsCount >= 0
       /\ req'.op # "reset" =>
             \A i \in 1..Len(users) :
                 /\ users[i].key \in Keys(users')
                 /\ GetUser(users', users[i].key).messageCount >= users[i].val.messageCount
                 /\ GetUser(users', users[i].key).ttsCount >= users[i].val.ttsCount]_vars

\* a TTS request has just been counted on a record that already held messages
C4_Witness ==
    /\ req.op \in {"getTts", "getTtsJson", "postTts"}
    /\ res.status = 200
    /\ GetUser(users, res.username).messageCount >= 1
    /\ GetUser(users, res.username).ttsCount >= 1
    /\ Len(users) = 2

\* C5: right after POST /api/reset a volume lookup for any identifier reports
\* messageCount 0 and calculateVolume(0), and the aggregates are all zero
C5_ResetZeroes ==
    req.op = "reset" =>
        /\ \A raw \in RawNames :
              LET reply == VolumeReply("volume", toLowerCase(raw), GetUser(users, toLowerCase(raw)))
              IN  /\ reply.messageCount = 0
                  /\ reply.volume = calculateVolume(0)
        /\ StatsOf(users) = [totalUsers |-> 0, totalMessages |-> 0, totalTTS |-> 0]
        /\ Len(users) = 0

\* a reset that removed two records
C5_Witness ==
    /\ req.op = "reset"
    /\ cleared = 2

\* C8: GET /api/user/{id}/volume leaves the Map and the settings as they are and
\* answers 200 with the user's messageCount (0 for an unknown user) and the
\* volume computed from it
C8_VolumeLookupPure ==
    [][req'.op = "volume" =>
          LET k == toLowerCase(req'.username)
              count == IF k \in Keys(users) THEN users[IndexOf(users, k)].val.messageCount ELSE 0
          IN  /\ users' = users
              /\ settings' = settings
              /\ res'.status = 200
              /\ res'.messageCount = count
              /\ res'.volume = calculateVolume(count)]_vars

\* a lookup of a user without a record, answered while another user has one
C8_Witness ==
    /\ req.op = "volume"
    /\ toLowerCase(req.username) \notin Keys(users)
    /\ Len(users) = 1
    /\ res.messageCount = 0

\* requests waiting in flight that will increment counter c of key k
Pending(k, c) ==
    Cardinality({i \in 1..Len(inflight) :
        toLowerCase(inflight[i].username) = k /\ CounterOf(inflight[i].op) = c})

\* C9: no increment is lost: whatever the order in which the waiting handlers
\* run, each counter of a key equals the requests for it that have arrived less
\* those still waiting; once none waits, it equals the number that arrived
C9_NoLostIncrement ==
    \A raw \in ConcNames :
        LET k == toLowerCase(raw)
        IN  /\ GetUser(users, k).messageCount + Pending(k, "messageCount")
                 = Hist(arrived, <<k, "messageCount">>)
            /\ GetUser(users, k).ttsCount + Pending(k, "ttsCount")
                 = Hist(arrived, <<k, "ttsCount">>)

\* increments of both counters of one key have been applied while a message
\* request and a TTS request for the same key still wait
C9_Witness ==
    /\ GetUser(users, <<"a">>).messageCount >= 1
    /\ GetUser(users, <<"a">>).ttsCount >= 1
    /\ Pending(<<"a">>, "messageCount") >= 1
    /\ Pending(<<"a">>, "ttsCount") >= 1

\* the record at place p of the Map ranks before the one at place q: more
\* messages, or as many and seen first
RanksBefore(p, q) ==
    \/ users[p].val.messageCount > users[q].val.messageCount
    \/ /\ users[p].val.messageCount = users[q].val.messageCount
       /\ p < q

\* C10: GET /api/leaderboard returns at most 10 entries, by messageCount
\* descending and, among equals, in first-seen order; they are the top entries of
\* the whole Map under that order, each with the volume of its messageCount
C10_LeaderboardTopTen ==
    req.op = "leaderboard" =>
        LET top == res.users
            place == [i \in 1..Len(top) |-> IndexOf(users, top[i].username)]
            shown == {place[i] : i \in 1..Len(top)}
        IN  /\ Len(top) <= 10
            /\ Len(top) = Min2(10, Len(users))
            /\ \A i \in 1..Len(top) :
                  /\ place[i] # 0
                  /\ top[i].messageCount = users[place[i]].val.messageCount
                  /\ IF variant = "tts"
                     THEN top[i].volume = calculateVolume(top[i].messageCount)
                     ELSE /\ top[i].volumePercent = calculateVolume(top[i].messageCount)
                          /\ top[i].rank = i
            /\ \A i \in 1..Len(top), j \in 1..Len(top) :
                  i < j => RanksBefore(place[i], place[j])
            /\ \A q \in (1..Len(users)) \ shown :
                  \A i \in 1..Len(top) : RanksBefore(place[i], q)

\* eleven users: the one seen last leads, two shown users are level, and the
\* user left out is level with the last one shown
C10_Witness ==
    /\ req.op = "leaderboard"
    /\ Len(users) > 10
    /\ Len(res.users) = 10
    /\ res.users[1].username = users[Len(users)].key
    /\ res.users[2].messageCount = res.users[3].messageCount
    /\ \E q \in 1..Len(users) :
          /\ \A i \in 1..Len(res.users) : res.users[i].username # users[q].key
          /\ users[q].val.messageCount = res.users[10].messageCount

RECURSIVE SumHist(_, _)
\* the history counters of the keys in S, added up
SumHist(h, S) ==
    IF S = {} THEN 0
    ELSE LET k == CHOOSE x \in S : TRUE
         IN  Hist(h, k) + SumHist(h, S \ {k})

RECURSIVE SumField(_, _)
\* counter `field` of the records with keys in S, added up
SumField(S, field) ==
    IF S = {} THEN 0
    ELSE LET k == CHOOSE x \in S : TRUE
         IN  GetUser(users, k)[field] + SumField(S \ {k}, field)

\* C11: GET /api/stats reports the number of records, the sum of messageCount
\* and the sum of ttsCount over all records; the sums equal the numbers of
\* message and TTS requests counted since the last reset
C11_StatsAreSums ==
    req.op = "stats" =>
        /\ res.totalUsers = Cardinality(Keys(users))
        /\ res.totalMessages = SumField(Keys(users), "messageCount")
        /\ res.totalTTS = SumField(Keys(users), "ttsCount")
        /\ res.totalMessages = SumHist(posts, DOMAIN posts)
        /\ res.totalTTS = SumHist(ttsUses, DOMAIN ttsUses)

\* stats over two records that hold messages and TTS uses
C11_Witness ==
    /\ req.op = "stats"
    /\ res.totalUsers = 2
    /\ res.totalMessages >= 3
    /\ res.totalTTS >= 2

RECURSIVE Trim(_)
\* s without its leading and trailing spaces
Trim(s) ==
    IF s = <<>> THEN s
    ELSE IF s[1] = " " THEN Trim(SubSeq(s, 2, Len(s)))
    ELSE IF s[Len(s)] = " " THEN Trim(SubSeq(s, 1, Len(s) - 1))
    ELSE s

\* C12: identifiers are lowercased and trimmed before every lookup or mutation:
\* every key of the Map is in normalized form, and two identifiers that are
\* equal after lowercasing and trimming address the same record
C12_NormalizedKey ==
    /\ \A k \in Keys(users) : k = Trim(toLowerCase(k))
    /\ \A r1 \in RawNames, r2 \in RawNames :
          Trim(toLowerCase(r1)) = Trim(toLowerCase(r2)) =>
              GetUser(users, toLowerCase(r1)) = GetUser(users, toLowerCase(r2))

\* x raised to the floor lo, then lowered to the ceiling hi
ClampTo(x, lo, hi) ==
    LET floored == IF x < lo THEN lo ELSE x
    IN  IF floored > hi THEN hi ELSE floored

\* startVolume + c * incrementPerEvent, the increment being volumePerMessage in
\* part_000 and volumePerTTS in server.js
Linear(c) ==
    settings.startVolume
        + c * (IF variant = "message" THEN settings.volumePerMessage ELSE settings.volumePerTTS)

\* C13: for every counter and all reachable settings calculateVolume(c) is
\* clamp(startVolume + c * incrementPerEvent, minVolume, maxVolume) (server.js
\* has no minVolume, so no floor); with start 0.10, increment 0.02 and max 0.90 it
\* is 0.10 at 0, 0.30 at 10, 0.90 at 40 and 0.90 at 1000
C13_ContinuousFormula ==
    /\ \A c \in 0..MaxVolCount :
          calculateVolume(c) =
              IF variant = "message"
              THEN ClampTo(Linear(c), settings.minVolume, settings.maxVolume)
              ELSE IF Linear(c) > settings.maxVolume THEN settings.maxVolume ELSE Linear(c)
    /\ (settings.startVolume = 10 /\ Linear(1) - Linear(0) = 2 /\ settings.maxVolume = 90
        /\ (variant = "message" => settings.minVolume <= 10)) =>
          /\ calculateVolume(0) = 10
          /\ calculateVolume(10) = 30
          /\ calculateVolume(40) = 90
          /\ calculateVolume(1000) = 90

\* updated settings under which the floor, the linear part and the ceiling all
\* occur among the first counters
C13_Witness ==
    /\ variant = "message"
    /\ req.op = "putSettings"
    /\ settings.minVolume < settings.maxVolume
    /\ \E c1 \in 0..MaxVolCount, c2 \in 0..MaxVolCount, c3 \in 0..MaxVolCount :
          /\ Linear(c1) < settings.minVolume
          /\ Linear(c2) > settings.minVolume /\ Linear(c2) < settings.maxVolume
          /\ Linear(c3) > settings.maxVolume

\* C14: when a granularity eventsPerIncrement = N is configured, the volume is
\* clamp(baseVolume + floor(counter / N) * incrementPerEvent, minVolume, maxVolume)
C14_SteppedFormula ==
    (req.op = "putSettings" /\ "eventsPerIncrement" \in DOMAIN req.body) =>
        LET N == req.body.eventsPerIncrement \div One
            stepped(c) == Linear(c \div N)
        IN  \A c \in 0..MaxVolCount :
                calculateVolume(c) =
                    IF variant = "message"
                    THEN ClampTo(stepped(c), settings.minVolume, settings.maxVolume)
                    ELSE IF stepped(c) > settings.maxVolume THEN settings.maxVolume ELSE stepped(c)

\* C15: in part_000, minVolume <= startVolume initially and after any sequence
\* of PUT /api/settings updates
C15_MinBelowStart ==
    variant = "message" => settings.minVolume <= settings.startVolume

\* C16: in server.js, after a user's n-th recorded TTS use POST
\* /api/user/{id}/tts returns the volume min(startVolume + n * volumePerTTS, maxVolume)
C16_TtsDrivenVolume ==
    (variant = "tts" /\ req.op = "postTts") =>
        LET n == Hist(ttsUses, res.username)
        IN  /\ res.ttsCount = n
            /\ res.volume = Min2(settings.startVolume + n * settings.volumePerTTS,
                                 settings.maxVolume)

\* C17: messagesUntilMax in the replies of the volume and message endpoints is a
\* non-negative integer, the least number n of further events after which the
\* user's volume reaches maxVolume (0 once it is there)
C17_MessagesUntilMaxIsLeast ==
    req.op \in {"volume", "message"} =>
        /\ res.messagesUntilMax.kind = "num"
        /\ res.messagesUntilMax.n >= 0
        /\ calculateVolume(res.messageCount + res.messagesUntilMax.n) >= settings.maxVolume
        /\ \A j \in 0..(res.messagesUntilMax.n - 1) :
              calculateVolume(res.messageCount + j) < settings.maxVolume

\* C18: every call of a TTS query route the file registers (GET /api/tts/{id}
\* in both files, GET /api/tts/{id}/json in part_000), for a known or unknown
\* user, answers 200, stores the user's record and raises its ttsCount by
\* exactly 1
C18_TtsQueryAlwaysCounts ==
    [][(req'.op \in {"getTts", "getTtsJson"} /\ RouteExists(variant, req'.op)) =>
          LET k == toLowerCase(req'.username)
              before == IF k \in Keys(users) THEN users[IndexOf(users, k)].val.ttsCount ELSE 0
          IN  /\ res'.status = 200
              /\ k \in Keys(users')
              /\ users'[IndexOf(users', k)].val.ttsCount = before + 1
              /\ res'.ttsCount = before + 1]_vars

\* a JSON TTS query has created the record of a user unknown until then, next
\* to another user's record
C18_Witness ==
    /\ req.op = "getTtsJson"
    /\ res.status = 200
    /\ res.ttsCount = 1
    /\ res.messageCount = 0
    /\ Len(users) = 2

\* C19: POST /api/reset leaves every settings field as it is, and PUT
\* /api/settings leaves the Map as it is
C19_RegistryAndSettingsApart ==
    [][/\ req'.op = "reset" => settings' = settings
       /\ req'.op = "putSettings" => users' = users]_vars

\* a reset that removed records while updated settings were in force
C19_Witness ==
    /\ req.op = "reset"
    /\ cleared >= 1
    /\ settings # VOLUME_CONFIG(variant)

\* C20: a counting request changes no entry but its target's; a message
\* request leaves the target's ttsCount, a TTS request its messageCount
C20_OnlyTheTargetChanges ==
    [][(req'.op \in {"message", "postTts", "getTts", "getTtsJson"}) =>
          LET k == toLowerCase(req'.username)
          IN  /\ \A i \in 1..Len(users) :
                    users[i].key # k => (i <= Len(users') /\ users'[i] = users[i])
              /\ Keys(users') \subseteq Keys(users) \cup {k}
              /\ req'.op = "message" =>
                    GetUser(users', k).ttsCount = GetUser(users, k).ttsCount
              /\ req'.op # "message" =>
                    GetUser(users', k).messageCount = GetUser(users, k).messageCount]_vars

\* a TTS request counted on the second of two records, both holding messages
C20_Witness ==
    /\ req.op \in {"postTts", "getTts", "getTtsJson"}
    /\ res.status = 200
    /\ Len(users) = 2
    /\ users[2].key = res.username
    /\ users[1].val.messageCount >= 1
    /\ users[2].val.messageCount >= 1

====
